---- MODULE Spec2Model ----
(***************************************************************************)
(* A model of script.js, the routine builder page: the product catalog and *)
(* its filter, the selection set persisted in localStorage, and the chat   *)
(* session with the worker endpoint.                                       *)
(*                                                                         *)
(* A string is a tuple of characters (a literal of the source is kept as a *)
(* single token), a Set is a duplicate-free tuple in insertion order, and  *)
(* a DOM container is the tuple of its children.  One action is one        *)
(* handler run to its first await, or one continuation after an await.     *)
(***************************************************************************)
EXTENDS Integers, Sequences, FiniteSets, TLC

\* ------------------------------------------------------------------ bounds

MaxCatalog == 2      \* products in products.json
MaxStored == 2       \* ids in the array found in localStorage at startup
MaxFetches == 2      \* fetches of products.json issued in one run
MaxInFlight == 3     \* chat requests awaiting their response
MaxHistory == 4      \* messages in chatHistory when a request is sent
MaxTranscript == 8   \* children of chatWindow when a request is sent
MaxFairTranscript == 6  \* the same, where every request is answered

\* ----------------------------------------------------------------- strings

\* String.prototype.toLowerCase over the characters the model uses.
LowerChar(c) ==
  CASE c = "A" -> "a"
    [] c = "B" -> "b"
    [] c = "X" -> "x"
    [] OTHER -> c

toLowerCase(s) == [i \in 1..Len(s) |-> LowerChar(s[i])]

IsSpace(c) == c = " "

RECURSIVE trimStart(_)
trimStart(s) ==
  IF s # <<>> /\ IsSpace(Head(s)) THEN trimStart(Tail(s)) ELSE s

RECURSIVE trimEnd(_)
trimEnd(s) ==
  IF s # <<>> /\ IsSpace(s[Len(s)]) THEN trimEnd(SubSeq(s, 1, Len(s) - 1)) ELSE s

\* String.prototype.trim
trim(s) == trimEnd(trimStart(s))

\* String.prototype.includes
includes(s, t) ==
  \E k \in 0..(Len(s) - Len(t)) : SubSeq(s, k + 1, k + Len(t)) = t

\* The character class [a-z0-9] of the id's regular expression.
SlugChars == {"a", "b", "x", "z", "0"}

\* name.toLowerCase().replace(/[^a-z0-9]/g, '-')
Slug(name) ==
  [i \in 1..Len(name) |->
     IF LowerChar(name[i]) \in SlugChars THEN LowerChar(name[i]) ELSE "-"]

\* -------------------------------------------------------------- Set, JSON

\* new Set(array) as if it kept every element of the array.
NewSetKeepsDuplicates(arr) == arr

\* new Set(array): the first occurrence of each element, in order.
RECURSIVE NewSet(_)
NewSet(arr) ==
  IF arr = <<>> THEN <<>>
  ELSE LET front == NewSet(SubSeq(arr, 1, Len(arr) - 1))
           x == arr[Len(arr)]
       IN IF \E i \in DOMAIN front : front[i] = x THEN front ELSE Append(front, x)

SetHas(set, x) == \E i \in DOMAIN set : set[i] = x

SetAdd(set, x) == IF SetHas(set, x) THEN set ELSE Append(set, x)

SetDelete(set, x) == SelectSeq(set, LAMBDA y : y # x)

\* localStorage.getItem on a key never written.
StorageNull == [type |-> "null", items |-> <<>>]

\* JSON.stringify([...set]): the text of an array of the members in order.
JSONstringify(arr) == [type |-> "array", items |-> arr]

\* JSON.parse(text) || []
JSONparseOrEmpty(text) == IF text.type = "array" THEN text.items ELSE <<>>

\* ------------------------------------------------------------ products.json

\* The records products.json may hold (image, which no handler reads back, is
\* left out).  "A b" and "a-b" derive the same id.
Product1 ==
  [name |-> <<"A", " ", "b">>, brand |-> <<"X">>, category |-> "serum",
   description |-> <<"a", "x">>]

Product2 ==
  [name |-> <<"a", "-", "b">>, brand |-> <<"B">>, category |-> "cleanser",
   description |-> <<"z">>]

Product3 ==
  [name |-> <<"B">>, brand |-> <<"X">>, category |-> "serum",
   description |-> <<"0", " ", "a">>]

ProductUniverse == {Product1, Product2, Product3}

SeqsUpTo(S, n) == UNION {[1..k -> S] : k \in 0..n}

Catalogs == SeqsUpTo(ProductUniverse, MaxCatalog)

\* Ids the stored array may hold at startup: of a catalog product or of none.
StoredIds == {Slug(Product1.name), <<"z">>}

StoredValues == {StorageNull} \cup {JSONstringify(a) : a \in SeqsUpTo(StoredIds, MaxStored)}

\* The values of the category <select> and the texts typed in the search box.
CategoryValues == {"", "serum"}

SearchInputs == {<<" ">>, <<"B">>, <<" ", "X">>}

\* --------------------------------------------------------------- the state

VARIABLES
  catalog,               \* what products.json holds
  started,               \* DOMContentLoaded has fired
  pendingLoads,          \* fetches of products.json awaited, with what awaits each
  catalogFetches,        \* fetches of products.json issued so far
  productsData,
  selectedProductIds,
  storage,               \* localStorage's value under 'selectedProducts'
  toggled,               \* toggleProductSelection has run
  categoryValue,         \* categoryFilter.value
  searchValue,           \* productSearchInput.value
  productsContainer,     \* its children: product cards, or the load error
  selectedProductsList,  \* its children: tags, or the empty note
  chatHistory,
  chatWindow,            \* its children: the rendered transcript
  inFlight               \* requests to the worker awaiting their response

catalogVars ==
  <<catalog, started, pendingLoads, catalogFetches, productsData, categoryValue,
    searchValue>>

selectionVars == <<selectedProductIds, storage, toggled, productsContainer, selectedProductsList>>

chatVars == <<chatHistory, chatWindow, inFlight>>

vars == <<catalogVars, selectionVars, chatVars>>

SYSTEM_PROMPT == <<"You are the L'Oreal AI Routine Advisor. ...">>

SystemMessage == [role |-> "system", content |-> [text |-> SYSTEM_PROMPT, products |-> <<>>]]

\* The module's top-level statements, run once when the script is loaded.
InitOver(catalogs, stored) ==
  /\ catalog \in catalogs
  /\ storage \in stored
  /\ selectedProductIds = NewSet(JSONparseOrEmpty(storage))
  /\ productsData = <<>>
  /\ chatHistory = <<SystemMessage>>
  /\ started = FALSE
  /\ pendingLoads = <<>>
  /\ catalogFetches = 0
  /\ toggled = FALSE
  /\ categoryValue = ""
  /\ searchValue = <<>>
  /\ productsContainer = <<>>
  /\ selectedProductsList = <<>>
  /\ chatWindow = <<>>
  /\ inFlight = <<>>

Init == InitOver(Catalogs, StoredValues)

\* ------------------------------------------------------- catalog and filter

\* The map of loadProducts: each record with its derived id.
WithIds(products) ==
  [i \in 1..Len(products) |->
     [name |-> products[i].name, brand |-> products[i].brand,
      category |-> products[i].category, description |-> products[i].description,
      id |-> Slug(products[i].name)]]

ProductCard(product, set) ==
  [class |-> "product-card", product |-> product, selected |-> SetHas(set, product.id)]

LoadError == [class |-> "placeholder-message"]

IsCard(el) == el.class = "product-card"

\* displayProducts: the container's new children.
displayProducts(products, set) ==
  [i \in 1..Len(products) |-> ProductCard(products[i], set)]

\* filterAndDisplayProducts as if step 4 filtered productsData again, not
\* what step 3 left.
filteredProductsSearchAll(data, category, search) ==
  LET searchTerm == trim(toLowerCase(search))
  IN IF searchTerm # <<>>
     THEN SelectSeq(data,
                    LAMBDA p : \/ includes(toLowerCase(p.name), searchTerm)
                               \/ includes(toLowerCase(p.brand), searchTerm)
                               \/ includes(toLowerCase(p.description), searchTerm))
     ELSE IF category # ""
          THEN SelectSeq(data, LAMBDA p : p.category = category)
          ELSE data

\* Steps 1 to 4 of filterAndDisplayProducts.
filteredProducts(data, category, search) ==
  LET searchTerm == trim(toLowerCase(search))
      byCategory == IF category # ""
                    THEN SelectSeq(data, LAMBDA p : p.category = category)
                    ELSE data
  IN IF searchTerm # <<>>
     THEN SelectSeq(byCategory,
                    LAMBDA p : \/ includes(toLowerCase(p.name), searchTerm)
                               \/ includes(toLowerCase(p.brand), searchTerm)
                               \/ includes(toLowerCase(p.description), searchTerm))
     ELSE byCategory

\* filterAndDisplayProducts: with no data it calls loadProducts again and
\* leaves the container alone; else it renders the filtered products.
filterAndDisplayProducts(data, category, search, set, container) ==
  IF Len(data) = 0
  THEN [container |-> container, fetches |-> 1]
  ELSE [container |-> displayProducts(filteredProducts(data, category, search), set),
        fetches |-> 0]

\* updateSelectedProductsUI: the list's new children.
RECURSIVE Tags(_, _)
Tags(set, data) ==
  IF set = <<>> THEN <<>>
  ELSE LET id == Head(set)
           found == SelectSeq(data, LAMBDA p : p.id = id)
       IN (IF found # <<>>
           THEN <<[class |-> "selected-product-tag", id |-> id,
                   name |-> found[1].name, brand |-> found[1].brand]>>
           ELSE <<>>) \o Tags(Tail(set), data)

EmptyNote == [class |-> "empty-note"]

updateSelectedProductsUIByCatalog(set, data) ==
  IF Len(set) = 0 THEN <<EmptyNote>>
  ELSE Tags(SelectSeq([k \in DOMAIN data |-> data[k].id], LAMBDA id : SetHas(set, id)), data)

updateSelectedProductsUI(set, data) ==
  IF Len(set) = 0 THEN <<EmptyNote>> ELSE Tags(set, data)

IsTag(el) == el.class = "selected-product-tag"

\* The part of a handler that ends in filterAndDisplayProducts.
Refilter(data, category, search, loads) ==
  LET r == filterAndDisplayProducts(data, category, search, selectedProductIds,
                                    productsContainer)
  IN /\ catalogFetches + r.fetches <= MaxFetches
     /\ productsContainer' = r.container
     /\ catalogFetches' = catalogFetches + r.fetches
     /\ pendingLoads' = IF r.fetches = 1 THEN Append(loads, "retry") ELSE loads

\* The DOMContentLoaded handler up to its await: loadProducts sends the fetch.
DOMContentLoaded ==
  /\ ~started
  /\ started' = TRUE
  /\ pendingLoads' = <<"init">>
  /\ catalogFetches' = 1
  /\ UNCHANGED <<catalog, productsData, categoryValue, searchValue>>
  /\ UNCHANGED <<selectionVars, chatVars>>

Without(seq, i) == SubSeq(seq, 1, i - 1) \o SubSeq(seq, i + 1, Len(seq))

\* What runs after loadProducts returns: the rest of the DOMContentLoaded
\* handler, or the filterAndDisplayProducts that a retry chained.
AfterLoad(i, data, container) ==
  LET r == filterAndDisplayProducts(data, categoryValue, searchValue,
                                    selectedProductIds, container)
  IN /\ catalogFetches + r.fetches <= MaxFetches
     /\ productsContainer' = r.container
     /\ catalogFetches' = catalogFetches + r.fetches
     /\ pendingLoads' = IF r.fetches = 1
                         THEN Append(Without(pendingLoads, i), "retry")
                         ELSE Without(pendingLoads, i)
     /\ selectedProductsList' = IF pendingLoads[i] = "init"
                                 THEN updateSelectedProductsUI(selectedProductIds, data)
                                 ELSE selectedProductsList

\* loadProducts, the fetch and response.json() having succeeded.
LoadProductsSucceeds(i) ==
  /\ i \in DOMAIN pendingLoads
  /\ productsData' = WithIds(catalog)
  /\ AfterLoad(i, productsData', productsContainer)
  /\ UNCHANGED <<catalog, started, categoryValue, searchValue>>
  /\ UNCHANGED <<selectedProductIds, storage, toggled, chatVars>>

\* loadProducts, the fetch or response.json() having thrown: the catch.
LoadProductsFails(i) ==
  /\ i \in DOMAIN pendingLoads
  /\ productsData' = productsData
  /\ AfterLoad(i, productsData, <<LoadError>>)
  /\ UNCHANGED <<catalog, started, categoryValue, searchValue>>
  /\ UNCHANGED <<selectedProductIds, storage, toggled, chatVars>>

\* The change listener of categoryFilter.
CategoryChange(c) ==
  /\ started
  /\ categoryValue' = c
  /\ Refilter(productsData, c, searchValue, pendingLoads)
  /\ UNCHANGED <<catalog, started, productsData, searchValue>>
  /\ UNCHANGED <<selectedProductIds, storage, toggled, selectedProductsList, chatVars>>

\* The input listener of productSearchInput.
SearchInput(s) ==
  /\ started
  /\ searchValue' = s
  /\ Refilter(productsData, categoryValue, s, pendingLoads)
  /\ UNCHANGED <<catalog, started, productsData, categoryValue>>
  /\ UNCHANGED <<selectedProductIds, storage, toggled, selectedProductsList, chatVars>>

\* --------------------------------------------------------------- selection

\* classList.add / classList.remove on the card passed in, 0 being null.
MarkCard(container, card, selected) ==
  IF card = 0 THEN container
  ELSE [container EXCEPT ![card] = [@ EXCEPT !.selected = selected]]

\* toggleProductSelection as if it saved the set before changing it.
toggleProductSelectionSavesFirst(set, container, data, productId, card) ==
  LET has == SetHas(set, productId)
      newSet == IF has THEN SetDelete(set, productId) ELSE SetAdd(set, productId)
  IN [selectedProductIds |-> newSet,
      productsContainer |-> MarkCard(container, card, ~has),
      storage |-> JSONstringify(set),
      selectedProductsList |-> updateSelectedProductsUI(newSet, data)]

\* toggleProductSelection: the set, the card's class, the stored array and
\* the rebuilt list of tags.
toggleProductSelection(set, container, data, productId, card) ==
  LET has == SetHas(set, productId)
      newSet == IF has THEN SetDelete(set, productId) ELSE SetAdd(set, productId)
  IN [selectedProductIds |-> newSet,
      productsContainer |-> MarkCard(container, card, ~has),
      storage |-> JSONstringify(newSet),
      selectedProductsList |-> updateSelectedProductsUI(newSet, data)]

Toggle(productId, card) ==
  LET r == toggleProductSelection(selectedProductIds, productsContainer, productsData,
                                  productId, card)
  IN /\ selectedProductIds' = r.selectedProductIds
     /\ productsContainer' = r.productsContainer
     /\ storage' = r.storage
     /\ selectedProductsList' = r.selectedProductsList
     /\ toggled' = TRUE
     /\ UNCHANGED <<catalogVars, chatVars>>

\* The click listener attachProductCardListeners puts on card k (a click
\* outside its Details button).
CardClick(k) ==
  /\ k \in DOMAIN productsContainer
  /\ IsCard(productsContainer[k])
  /\ Toggle(productsContainer[k].product.id, k)

\* document.querySelector('.product-card[data-product-id="..."]'): the first
\* card with the id, or null.
querySelectorCard(container, productId) ==
  LET hits == {k \in DOMAIN container :
                 IsCard(container[k]) /\ container[k].product.id = productId}
  IN IF hits = {} THEN 0 ELSE CHOOSE k \in hits : \A j \in hits : k <= j

\* The click listener of tag t's remove button.
RemoveClick(t) ==
  /\ t \in DOMAIN selectedProductsList
  /\ IsTag(selectedProductsList[t])
  /\ Toggle(selectedProductsList[t].id,
            querySelectorCard(productsContainer, selectedProductsList[t].id))

\* -------------------------------------------------------------------- chat

\* The texts typed in userInput, and the replies the worker may give.
UserInputs == {<<" ">>, <<" ", "q">>}

Replies == {<<"AM: ... PM: ...">>}

ROUTINE_PROMPT == <<"Generate a comprehensive AM/PM routine ... Product JSON: ">>

ROUTINE_REQUEST == <<"Please generate a personalized routine for me.">>

SELECT_FIRST == <<"Please select at least one product before generating a routine.">>

GENERATING == <<"Generating your personalized routine...">>

THINKING == <<"Thinking...">>

ROUTINE_ERROR == <<"Error generating routine. Please check your worker endpoint/API key.">>

CHAT_ERROR == <<"Error continuing conversation. Please try again.">>

\* A message of chatHistory.  The content of the routine prompt is its text
\* followed by the JSON of the products; of any other message, its text.
Message(role, text, products) ==
  [role |-> role, content |-> [text |-> text, products |-> products]]

\* What reading chatHistory[0] of an empty array gives.
Undefined == Message("undefined", <<>>, <<>>)

\* appendMessageToChat: one more child of chatWindow.
appendMessageToChat(window, sender, content, isLoading) ==
  Append(window, [sender |-> sender, content |-> content, loading |-> isLoading])

removeLoadingMessageKeeps(window) == window

\* removeLoadingMessage: getElementById gives the first element with the id.
removeLoadingMessage(window) ==
  LET hits == {k \in DOMAIN window : window[k].loading}
  IN IF hits = {} THEN window
     ELSE Without(window, CHOOSE k \in hits : \A j \in hits : k <= j)

\* Step 1 of generateRoutine: the selected ids found in productsData.
selectedProductsDataByCatalog(set, data) ==
  LET chosen == SelectSeq(data, LAMBDA p : SetHas(set, p.id))
  IN [k \in DOMAIN chosen |->
        [name |-> chosen[k].name, brand |-> chosen[k].brand,
         category |-> chosen[k].category, description |-> chosen[k].description]]

RECURSIVE selectedProductsData(_, _)
selectedProductsData(set, data) ==
  IF set = <<>> THEN <<>>
  ELSE LET found == SelectSeq(data, LAMBDA p : p.id = Head(set))
       IN (IF found # <<>>
           THEN <<[name |-> found[1].name, brand |-> found[1].brand,
                   category |-> found[1].category,
                   description |-> found[1].description]>>
           ELSE <<>>) \o selectedProductsData(Tail(set), data)

\* generateRoutine as if it had no guard on an empty selection.
generateRoutineUnguarded(set, data, history, window) ==
  LET first == IF history = <<>> THEN Undefined ELSE history[1]
      prompt == Message("user", ROUTINE_PROMPT, selectedProductsData(set, data))
      newHistory == <<first, prompt>>
  IN [chatHistory |-> newHistory,
      chatWindow |->
        appendMessageToChat(
          appendMessageToChat(window, "User", ROUTINE_REQUEST, FALSE),
          "AI Advisor", GENERATING, TRUE),
      sent |-> <<[from |-> "generateRoutine", messages |-> newHistory]>>]

\* generateRoutine up to its await: the history, the transcript, and the
\* bodies of the requests it sends (none or one).
generateRoutine(set, data, history, window) ==
  IF Len(set) = 0
  THEN [chatHistory |-> history,
        chatWindow |-> appendMessageToChat(window, "AI Advisor", SELECT_FIRST, FALSE),
        sent |-> <<>>]
  ELSE LET first == IF history = <<>> THEN Undefined ELSE history[1]
           prompt == Message("user", ROUTINE_PROMPT, selectedProductsData(set, data))
           newHistory == <<first, prompt>>
       IN [chatHistory |-> newHistory,
           chatWindow |->
             appendMessageToChat(
               appendMessageToChat(window, "User", ROUTINE_REQUEST, FALSE),
               "AI Advisor", GENERATING, TRUE),
           sent |-> <<[from |-> "generateRoutine", messages |-> newHistory]>>]

\* The model's bounds on what a click or a submit may leave behind; the
\* continuations after an await are never held back.
Room(history, window, requests) ==
  /\ Len(requests) <= MaxInFlight
  /\ Len(history) <= MaxHistory
  /\ Len(window) <= MaxTranscript

\* The click listener of generateRoutineBtn.
GenerateRoutine ==
  LET r == generateRoutine(selectedProductIds, productsData, chatHistory, chatWindow)
  IN /\ started
     /\ Room(r.chatHistory, r.chatWindow, inFlight \o r.sent)
     /\ chatHistory' = r.chatHistory
     /\ chatWindow' = r.chatWindow
     /\ inFlight' = inFlight \o r.sent
     /\ UNCHANGED <<catalogVars, selectionVars>>

\* generateRoutine after its awaits, the worker having answered with a reply.
generateRoutineReplied(history, window, aiResponse) ==
  [chatHistory |-> Append(history, Message("assistant", aiResponse, <<>>)),
   chatWindow |-> appendMessageToChat(removeLoadingMessage(window), "AI Advisor",
                                      aiResponse, FALSE)]

generateRoutineFailedPops(history, window, afterRemove) ==
  [chatHistory |-> SubSeq(history, 1, Len(history) - 1),
   chatWindow |->
     appendMessageToChat(removeLoadingMessage(window), "AI Advisor", ROUTINE_ERROR, FALSE)]

\* The catch of generateRoutine.  The throw comes from fetch, from the status
\* check or from response.json(), or from appendMessageToChat on a reply
\* that is no string, after the try block has removed a loading message.
generateRoutineFailed(history, window, afterRemove) ==
  [chatHistory |-> history,
   chatWindow |->
     appendMessageToChat(
       removeLoadingMessage(IF afterRemove THEN removeLoadingMessage(window) ELSE window),
       "AI Advisor", ROUTINE_ERROR, FALSE)]

GenerateRoutineReplied(i, aiResponse) ==
  LET r == generateRoutineReplied(chatHistory, chatWindow, aiResponse)
  IN /\ i \in DOMAIN inFlight
     /\ inFlight[i].from = "generateRoutine"
     /\ chatHistory' = r.chatHistory
     /\ chatWindow' = r.chatWindow
     /\ inFlight' = Without(inFlight, i)
     /\ UNCHANGED <<catalogVars, selectionVars>>

GenerateRoutineFailed(i, afterRemove) ==
  LET r == generateRoutineFailed(chatHistory, chatWindow, afterRemove)
  IN /\ i \in DOMAIN inFlight
     /\ inFlight[i].from = "generateRoutine"
     /\ chatHistory' = r.chatHistory
     /\ chatWindow' = r.chatWindow
     /\ inFlight' = Without(inFlight, i)
     /\ UNCHANGED <<catalogVars, selectionVars>>

chatSubmitUntrimmed(input, history, window) ==
  LET newHistory == Append(history, Message("user", input, <<>>))
  IN [chatHistory |-> newHistory,
      chatWindow |->
        appendMessageToChat(appendMessageToChat(window, "User", input, FALSE),
                            "AI Advisor", THINKING, TRUE),
      sent |-> <<[from |-> "chatForm", messages |-> newHistory]>>]

\* The submit listener of chatForm up to its await.
chatSubmit(input, history, window) ==
  LET userMessage == trim(input)
  IN IF userMessage = <<>>
     THEN [chatHistory |-> history, chatWindow |-> window, sent |-> <<>>]
     ELSE LET newHistory == Append(history, Message("user", userMessage, <<>>))
          IN [chatHistory |-> newHistory,
              chatWindow |->
                appendMessageToChat(
                  appendMessageToChat(window, "User", userMessage, FALSE),
                  "AI Advisor", THINKING, TRUE),
              sent |-> <<[from |-> "chatForm", messages |-> newHistory]>>]

ChatSubmit(input) ==
  LET r == chatSubmit(input, chatHistory, chatWindow)
  IN /\ started
     /\ Room(r.chatHistory, r.chatWindow, inFlight \o r.sent)
     /\ chatHistory' = r.chatHistory
     /\ chatWindow' = r.chatWindow
     /\ inFlight' = inFlight \o r.sent
     /\ UNCHANGED <<catalogVars, selectionVars>>

\* The submit listener after its awaits, the worker having answered.
chatReplied(history, window, aiResponse) ==
  [chatHistory |-> Append(history, Message("assistant", aiResponse, <<>>)),
   chatWindow |-> appendMessageToChat(removeLoadingMessage(window), "AI Advisor",
                                      aiResponse, FALSE)]

\* Array.prototype.pop
pop(array) == IF array = <<>> THEN <<>> ELSE SubSeq(array, 1, Len(array) - 1)

\* The catch of the submit listener.
chatFailed(history, window, afterRemove) ==
  [chatHistory |-> pop(history),
   chatWindow |->
     appendMessageToChat(
       removeLoadingMessage(IF afterRemove THEN removeLoadingMessage(window) ELSE window),
       "AI Advisor", CHAT_ERROR, FALSE)]

ChatReplied(i, aiResponse) ==
  LET r == chatReplied(chatHistory, chatWindow, aiResponse)
  IN /\ i \in DOMAIN inFlight
     /\ inFlight[i].from = "chatForm"
     /\ chatHistory' = r.chatHistory
     /\ chatWindow' = r.chatWindow
     /\ inFlight' = Without(inFlight, i)
     /\ UNCHANGED <<catalogVars, selectionVars>>

ChatFailed(i, afterRemove) ==
  LET r == chatFailed(chatHistory, chatWindow, afterRemove)
  IN /\ i \in DOMAIN inFlight
     /\ inFlight[i].from = "chatForm"
     /\ chatHistory' = r.chatHistory
     /\ chatWindow' = r.chatWindow
     /\ inFlight' = Without(inFlight, i)
     /\ UNCHANGED <<catalogVars, selectionVars>>

\* ------------------------------------------------------------ specifications

CatalogNext ==
  \/ DOMContentLoaded
  \/ \E i \in 1..MaxFetches : LoadProductsSucceeds(i)
  \/ \E i \in 1..MaxFetches : LoadProductsFails(i)
  \/ \E c \in CategoryValues : CategoryChange(c)
  \/ \E s \in SearchInputs : SearchInput(s)

SelectionNext ==
  \/ \E k \in 1..MaxCatalog : CardClick(k)
  \/ \E t \in 1..(MaxCatalog + MaxStored) : RemoveClick(t)

ChatNext ==
  \/ GenerateRoutine
  \/ \E input \in UserInputs : ChatSubmit(input)
  \/ \E i \in 1..MaxInFlight, reply \in Replies : GenerateRoutineReplied(i, reply)
  \/ \E i \in 1..MaxInFlight, afterRemove \in BOOLEAN : GenerateRoutineFailed(i, afterRemove)
  \/ \E i \in 1..MaxInFlight, reply \in Replies : ChatReplied(i, reply)
  \/ \E i \in 1..MaxInFlight, afterRemove \in BOOLEAN : ChatFailed(i, afterRemove)

Next == CatalogNext \/ SelectionNext \/ ChatNext

\* The whole page.
Spec == Init /\ [][Next]_vars

\* The catalog, the filter and the selection.  The chat handlers write
\* chatVars alone, which nothing here reads.
SelectionSpec == Init /\ [][CatalogNext \/ SelectionNext]_vars

\* The chat session, over a one-product catalog and a selection that starts
\* empty or with an id of no product followed by the product's.  The chat
\* handlers read selectedProductIds and productsData alone; a failed load and
\* the filter change neither.
ChatInit ==
  InitOver({<<Product1>>},
           {StorageNull, JSONstringify(<<<<"z">>, Slug(Product1.name)>>)})

ChatSpecNext ==
  \/ DOMContentLoaded
  \/ \E i \in 1..MaxFetches : LoadProductsSucceeds(i)
  \/ ChatNext

ChatSpec == ChatInit /\ [][ChatSpecNext]_vars

\* A response.  fetch settles every request: with a response, or with a
\* rejection when the network fails.
Response ==
  \E i \in 1..MaxInFlight :
    \/ \E reply \in Replies : GenerateRoutineReplied(i, reply) \/ ChatReplied(i, reply)
    \/ \E afterRemove \in BOOLEAN :
         GenerateRoutineFailed(i, afterRemove) \/ ChatFailed(i, afterRemove)

\* The chat session when every request is answered.
\* A click on generateRoutineBtn or a submit of chatForm, while the
\* transcript is short.
Send ==
  /\ GenerateRoutine \/ \E input \in UserInputs : ChatSubmit(input)
  /\ Len(chatWindow') <= MaxFairTranscript

ChatFairNext ==
  \/ DOMContentLoaded
  \/ \E i \in 1..MaxFetches : LoadProductsSucceeds(i)
  \/ Send
  \/ Response

ChatFairSpec == ChatInit /\ [][ChatFairNext]_vars /\ WF_vars(Response)

\* Routine generation up to the responses, with the selection changing under
\* it: the catalog holds two products, of two ids or of one, and the
\* selection starts empty or with an id of no product.
RoutineInit ==
  InitOver({<<Product1, Product3>>, <<Product1, Product2>>},
           {StorageNull, JSONstringify(<<<<"z">>>>)})

RoutineSpecNext ==
  \/ DOMContentLoaded
  \/ \E i \in 1..MaxFetches : LoadProductsSucceeds(i)
  \/ SelectionNext
  \/ GenerateRoutine

RoutineSpec == RoutineInit /\ [][RoutineSpecNext]_vars

\* ------------------------------------------------------------------ claims

\* C1: in every reachable state chatHistory is non-empty, its first element
\* is the system message, and no other element has role system.
C1_SystemMessageFirst ==
  /\ chatHistory # <<>>
  /\ chatHistory[1] = SystemMessage
  /\ \A k \in 2..Len(chatHistory) : chatHistory[k].role # "system"

\* Every id a toggle may be called with.
AllIds == StoredIds \cup {Slug(p.name) : p \in ProductUniverse}

Members(set) == {set[k] : k \in DOMAIN set}

\* toggleProductSelection called on productId twice from the current state.
ToggledTwice(productId) ==
  LET card == querySelectorCard(productsContainer, productId)
      once == toggleProductSelection(selectedProductIds, productsContainer,
                                     productsData, productId, card)
  IN toggleProductSelection(once.selectedProductIds, once.productsContainer,
                            productsData, productId, card)

\* C2 as stated: toggling an id twice restores membership and leaves the
\* stored value equal to the serialization of the set before the two toggles.
C2_ToggleTwiceRestoresStorage ==
  \A id \in AllIds :
    /\ Members(ToggledTwice(id).selectedProductIds) = Members(selectedProductIds)
    /\ ToggledTwice(id).storage = JSONstringify(selectedProductIds)

\* C2 as amended: toggling an id twice restores membership, and the stored
\* value is the serialization of the set before the two toggles with the id,
\* when it was a member, moved to the end; so the two are equal when the id
\* was no member or was the last one.
C2_ToggleTwiceMovesIdLast ==
  \A id \in AllIds :
    LET before == selectedProductIds
        twice == ToggledTwice(id)
        moved == IF SetHas(before, id)
                 THEN Append(SelectSeq(before, LAMBDA x : x # id), id)
                 ELSE before
    IN /\ Members(twice.selectedProductIds) = Members(before)
       /\ twice.storage = JSONstringify(moved)
       /\ (~SetHas(before, id) \/ before[Len(before)] = id)
            => twice.storage = JSONstringify(before)

\* A toggle has run and left a set with a member that is not the last.
C2_Witness ==
  /\ toggled
  /\ Len(selectedProductIds) >= 2
  /\ storage = JSONstringify(selectedProductIds)

\* C3: when a follow-up's request fails, chatHistory afterwards is chatHistory
\* as it was before that follow-up was submitted, that is the messages the
\* request carried without the last.
C3_FailedFollowUpRestoresHistory ==
  [][\A i \in DOMAIN inFlight :
       ChatFailed(i, FALSE)
         => chatHistory' = SubSeq(inFlight[i].messages, 1, Len(inFlight[i].messages) - 1)]_vars

\* C4: when a generate-routine request succeeds with a reply, chatHistory
\* afterwards is the system message, the user message with the routine
\* prompt that request carried, and the assistant message with the reply.
C4_RepliedRoutineHistory ==
  [][\A i \in DOMAIN inFlight : \A reply \in Replies :
       GenerateRoutineReplied(i, reply)
         => chatHistory' = <<SystemMessage, inFlight[i].messages[2],
                             Message("assistant", reply, <<>>)>>]_vars

\* C5: the catalog is fetched once, at startup; once the load has failed and
\* the inline error is shown, the catalog is empty and no other fetch has
\* been issued.
C5_CatalogFetchedOnce ==
  /\ started => catalogFetches >= 1
  /\ productsContainer = <<LoadError>> => (productsData = <<>> /\ catalogFetches = 1)

\* C6: generate-routine with an empty selection sends no request, appends
\* one advisory message and no loading placeholder to the transcript, and
\* leaves chatHistory and the selection as they were.
C6_EmptySelectionGenerate ==
  [][(GenerateRoutine /\ selectedProductIds = <<>>)
       => /\ inFlight' = inFlight
          /\ Len(chatWindow') = Len(chatWindow) + 1
          /\ SubSeq(chatWindow', 1, Len(chatWindow)) = chatWindow
          /\ chatWindow'[Len(chatWindow')].sender = "AI Advisor"
          /\ chatWindow'[Len(chatWindow')].content = SELECT_FIRST
          /\ ~chatWindow'[Len(chatWindow')].loading
          /\ chatHistory' = chatHistory
          /\ selectedProductIds' = selectedProductIds]_vars

\* The advisory message has been shown, with nothing sent.
C6_Witness ==
  /\ selectedProductIds = <<>>
  /\ inFlight = <<>>
  /\ chatWindow # <<>>
  /\ chatWindow[Len(chatWindow)].content = SELECT_FIRST

\* C7: once a toggle has run, the stored value is an array without
\* duplicates holding the current members of the set in insertion order.
C7_StorageIsSerializedSet ==
  toggled =>
    /\ storage.type = "array"
    /\ Len(storage.items) = Len(selectedProductIds)
    /\ \A k \in DOMAIN storage.items : storage.items[k] = selectedProductIds[k]
    /\ \A j, k \in DOMAIN storage.items : j # k => storage.items[j] # storage.items[k]

\* A toggle has run and left two members.
C7_Witness ==
  /\ toggled
  /\ Len(selectedProductIds) = 2
  /\ Len(storage.items) = 2

\* C8: every rendered product card is marked selected if and only if its
\* product id is a member of the selection set.
C8_CardsMatchSelection ==
  \A k \in DOMAIN productsContainer :
    IsCard(productsContainer[k])
      => (productsContainer[k].selected
            <=> SetHas(selectedProductIds, productsContainer[k].product.id))

\* The products of the rendered cards, in order.
Displayed ==
  LET cards == SelectSeq(productsContainer, IsCard)
  IN [k \in 1..Len(cards) |-> cards[k].product]

\* The claim's two predicates on a product, under the current filter values.
CategoryMatches(p) == categoryValue # "" => p.category = categoryValue

SearchMatches(p) ==
  LET term == trim(toLowerCase(searchValue))
  IN term # <<>>
       => \E field \in {p.name, p.brand, p.description} :
            \E k \in 0..(Len(field) - Len(term)) :
              \A j \in 1..Len(term) : LowerChar(field[k + j]) = term[j]

\* C9: the products displayed are the catalog products, in catalog order,
\* whose category is the selected category (when one is set) and whose name,
\* brand or description contains the lower-cased trimmed search term (when it
\* is non-empty).
C9_DisplayedAreTheMatches ==
  /\ Displayed = SelectSeq(productsData, LAMBDA p : CategoryMatches(p) /\ SearchMatches(p))
  /\ \A k \in DOMAIN Displayed : \E j \in DOMAIN productsData : Displayed[k] = productsData[j]

\* Both filters are set and keep some of the catalog, not all of it.
C9_Witness ==
  /\ categoryValue # ""
  /\ trim(toLowerCase(searchValue)) # <<>>
  /\ Displayed # <<>>
  /\ Len(Displayed) < Len(productsData)

\* C10: while a chat request awaits its response, a loading placeholder is
\* the last entry of the rendered transcript.
C10_PlaceholderLast ==
  inFlight # <<>> => (chatWindow # <<>> /\ chatWindow[Len(chatWindow)].loading)

\* C11: every request sent, by generate-routine or by a follow-up, carries
\* the whole chatHistory as it stands when it is sent; it begins with the
\* system message and ends with the user message of that exchange.
C11_RequestCarriesHistory ==
  [][Len(inFlight') > Len(inFlight)
       => LET messages == inFlight'[Len(inFlight')].messages
          IN /\ messages = chatHistory'
             /\ messages[1] = SystemMessage
             /\ messages[Len(messages)].role = "user"]_vars

RECURSIVE EntriesWhere(_, _)
EntriesWhere(seq, loading) ==
  IF seq = <<>> THEN <<>>
  ELSE IF seq[1].loading = loading
       THEN <<seq[1]>> \o EntriesWhere(Tail(seq), loading)
       ELSE EntriesWhere(Tail(seq), loading)

\* The loading placeholders of a transcript, and its other entries, in order.
Placeholders(window) == EntriesWhere(window, TRUE)
Rendered(window) == EntriesWhere(window, FALSE)

ErrorEntry(text) == [sender |-> "AI Advisor", content |-> text, loading |-> FALSE]

\* C12: when a generate-routine request fails on the network or on the
\* status, a placeholder is removed, the static error message is rendered
\* last, and chatHistory is left as it is: the routine user message is not
\* removed.
C12_FailedRoutineKeepsHistory ==
  [][\A i \in DOMAIN inFlight :
       GenerateRoutineFailed(i, FALSE)
         => /\ chatHistory' = chatHistory
            /\ Rendered(chatWindow') = Append(Rendered(chatWindow), ErrorEntry(ROUTINE_ERROR))
            /\ chatWindow'[Len(chatWindow')] = ErrorEntry(ROUTINE_ERROR)
            /\ Placeholders(chatWindow) # <<>>
                 => Len(Placeholders(chatWindow')) = Len(Placeholders(chatWindow)) - 1]_vars

\* A failed routine request is resolved with its prompt still last in
\* chatHistory and the error message last in the transcript.
C12_Witness ==
  /\ inFlight = <<>>
  /\ Len(chatHistory) = 2
  /\ chatHistory[1] = SystemMessage
  /\ chatHistory[2].role = "user"
  /\ chatHistory[2].content.products # <<>>
  /\ chatWindow # <<>>
  /\ chatWindow[Len(chatWindow)] = ErrorEntry(ROUTINE_ERROR)
  /\ Placeholders(chatWindow) = <<>>

\* The chat session is idle: no request is in flight and the transcript
\* holds no loading placeholder.
Idle ==
  /\ inFlight = <<>>
  /\ Placeholders(chatWindow) = <<>>

\* The transcript and the history have room for one more exchange.
RoomForExchange ==
  /\ Len(chatWindow) + 2 <= MaxTranscript
  /\ Len(chatHistory) + 1 <= MaxHistory

\* Generate-routine, a follow-up and every card's toggle can be taken.
Interactive ==
  /\ ENABLED GenerateRoutine
  /\ ENABLED ChatSubmit(<<" ", "q">>)
  /\ \A k \in DOMAIN productsContainer :
       IsCard(productsContainer[k]) => ENABLED CardClick(k)

\* C13: if every request sent eventually completes, on a reply or on a
\* failure of any class, then whenever a request is in flight the session
\* returns to idle, and in every idle state of the started page
\* generate-routine, follow-up and toggle are enabled.
C13_EveryExchangeResolves ==
  /\ (inFlight # <<>>) ~> Idle
  /\ [](started /\ Idle /\ RoomForExchange => Interactive)

\* The session is idle again after an exchange that failed and one that was
\* answered, and can start another.
C13_Witness ==
  /\ Idle
  /\ RoomForExchange
  /\ \E k \in DOMAIN chatWindow : chatWindow[k] = ErrorEntry(CHAT_ERROR)
  /\ \E k \in DOMAIN chatWindow : chatWindow[k] = ErrorEntry(ROUTINE_ERROR)
  /\ \E k \in DOMAIN chatHistory : chatHistory[k].role = "assistant"
  /\ \E k \in DOMAIN productsContainer : IsCard(productsContainer[k])
  /\ Interactive

\* The ids of the tags of the selected-items panel, in document order.
TagIds(list) == [k \in DOMAIN SelectSeq(list, IsTag) |-> SelectSeq(list, IsTag)[k].id]

InCatalog(id) == \E k \in DOMAIN productsData : productsData[k].id = id

\* C14: after every toggle the panel holds one tag for each selected id that
\* is in the catalog, in the insertion order of the set, and none for a
\* selected id that is not; the ids that are not stay in the selection set
\* and in the stored value.
C14_PanelJoinsSelectionAndCatalog ==
  [][selectedProductIds' # selectedProductIds
       => /\ TagIds(selectedProductsList') = SelectSeq(selectedProductIds', InCatalog)
          /\ \A id \in Members(selectedProductIds) :
               ~InCatalog(id) => /\ SetHas(selectedProductIds', id)
                                 /\ SetHas(storage'.items, id)]_vars

\* After a toggle the panel shows two tags in an order that is not the
\* catalog's, and the set holds an id of no product, with no tag.
C14_Witness ==
  /\ toggled
  /\ Len(productsData) = 2
  /\ TagIds(selectedProductsList) = <<productsData[2].id, productsData[1].id>>
  /\ productsData[1].id # productsData[2].id
  /\ \E id \in Members(selectedProductIds) : ~InCatalog(id) /\ SetHas(storage.items, id)

\* C15: a follow-up submitted with an input that is empty once trimmed is
\* ignored: chatHistory, the transcript and the requests in flight are
\* unchanged, so no request is sent.
C15_EmptyFollowUpIgnored ==
  [][\A input \in UserInputs :
       ChatSubmit(input) /\ trim(input) = <<>> => UNCHANGED chatVars]_vars

\* A blank follow-up can be submitted while a request is pending and the
\* transcript has room for another exchange.
C15_Witness ==
  /\ started
  /\ inFlight # <<>>
  /\ Len(inFlight) < MaxInFlight
  /\ RoomForExchange
  /\ \E input \in UserInputs : trim(input) = <<>> /\ input # <<>>

\* C16: in every reachable state the transcript holds as many loading
\* placeholders as there are chat requests in flight, and none when no
\* request is in flight.
C16_PlaceholderPerRequest ==
  Len(Placeholders(chatWindow)) = Len(inFlight)

\* C17: in every reachable state every assistant message of chatHistory is
\* immediately preceded by a user message.
C17_AssistantFollowsUser ==
  \A k \in DOMAIN chatHistory :
    chatHistory[k].role = "assistant" => (k > 1 /\ chatHistory[k - 1].role = "user")

\* The product payload of the user message a request ends with.
Payload(request) == request.messages[Len(request.messages)].content.products

\* The payload entry of the first product of the catalog with the id.
EntryOf(id) ==
  LET k == CHOOSE k \in DOMAIN productsData :
             /\ productsData[k].id = id
             /\ \A j \in 1..(k - 1) : productsData[j].id # id
  IN [name |-> productsData[k].name, brand |-> productsData[k].brand,
      category |-> productsData[k].category,
      description |-> productsData[k].description]

\* C18: a generate-routine click with a selection set that is not empty sends
\* exactly one request; the payload of its user message has one entry (name,
\* brand, category, description) for each selected id that is in the
\* catalog, in insertion order, and is empty when none is.
C18_RoutinePayload ==
  [][GenerateRoutine /\ selectedProductIds # <<>>
       => LET present == SelectSeq(selectedProductIds, InCatalog)
              request == inFlight'[Len(inFlight')]
          IN /\ inFlight' = Append(inFlight, request)
             /\ request.from = "generateRoutine"
             /\ request.messages[Len(request.messages)].role = "user"
             /\ Payload(request) = [k \in DOMAIN present |-> EntryOf(present[k])]]_vars

\* Two requests are pending: one sent with an empty payload, one with two
\* entries in an order that is not the catalog's.
C18_Witness ==
  /\ Len(productsData) = 2
  /\ \E i, j \in DOMAIN inFlight :
       /\ Payload(inFlight[i]) = <<>>
       /\ Len(Payload(inFlight[j])) = 2
       /\ Payload(inFlight[j])[1].name = productsData[2].name
       /\ Payload(inFlight[j])[2].name = productsData[1].name

====
